---------------------------- MODULE Spec2Model ----------------------------
(***************************************************************************)
(* Pomodoro timer extension: the background Timer Engine (background.ts),  *)
(* the shared store (chrome.storage.local), the control messages and the   *)
(* storage change notifications in flight, and one Pomodoro View           *)
(* (Pomodoro.tsx), which either mirrors the store (extension mode) or runs *)
(* its own countdown (standalone mode).                                    *)
(*                                                                         *)
(* The engine keeps the names of background.ts as variables; the View's    *)
(* React state is the record `view` with the names of Pomodoro.tsx.        *)
(***************************************************************************)
EXTENDS Integers, Sequences, FiniteSets

(***************************************************************************)
(* Program constants.                                                      *)
(***************************************************************************)
SecondsPerMinute == 60
DefaultSessionMinutes == 25
DefaultBreakMinutes == 5

(***************************************************************************)
(* Bounds of the model.                                                    *)
(*   MaxMinutes  duration inputs are drawn from 1..MaxMinutes              *)
(*   TickWindow  a countdown is followed only through its last TickWindow  *)
(*               seconds (ticks at larger values are not explored)         *)
(*   MaxPending  messages, and change notifications, in flight at once     *)
(***************************************************************************)
MaxMinutes == 1
TickWindow == 60
MaxPending == 1

Minutes == 1..MaxMinutes

Null == 0

\* calculateProgress: (...) * 100
Percent == 100

\* the duration inputs: min="1" max="60"
InputMin == 1
InputMax == 60

\* numbers that can be typed in a duration input and are outside its range
OutOfRange == {InputMin - 2, InputMin - 1, InputMax + 1}

\* request.action: the three control actions, and one that is none of them
ControlActions == {"startTimer", "pauseTimer", "resetTimer"}
Actions == ControlActions \cup {"other"}

VARIABLES
  isExtensionEnvironment, \* Pomodoro.tsx: !!chrome?.storage
  \* background.ts module-level state
  timer,            \* handle of the engine's interval, or Null
  timeLeft,
  isRunning,
  isSession,
  sessionDuration,  \* seconds
  breakDuration,    \* seconds
  intervals,        \* ids of the intervals the engine has registered and not cleared
  \* platform
  installed,        \* the onInstalled listener has run
  store,            \* chrome.storage.local
  msgs,             \* control messages sent and not yet handled
  changes,          \* storage change notifications not yet handled by the engine
  \* Pomodoro.tsx
  mounted,
  view,             \* React state of the View
  viewInterval,     \* handle held by the cleanup of the View's last effect, or Null
  viewIntervals,    \* ids of the intervals the View has registered and not cleared
  polled,           \* the View has polled since the engine's last tick
  other,            \* a second View: whether it is open, and its React state
  \* output
  played            \* sound assets played by the most recent step

engineVars == <<timer, timeLeft, isRunning, isSession, sessionDuration, breakDuration, intervals>>
platformVars == <<installed, store, msgs, changes>>
viewVars == <<mounted, view, viewInterval, viewIntervals, polled, other>>
vars == <<isExtensionEnvironment, engineVars, platformVars, viewVars, played>>

(***************************************************************************)
(* Platform helpers.                                                       *)
(***************************************************************************)
\* setInterval: a handle no live interval has (browser handles are positive).
NewInterval(live) == CHOOSE i \in 1..(Cardinality(live) + 1) : i \notin live

\* clearInterval(handle)
ClearInterval(live, handle) == live \ {handle}

\* playSound(type): the asset that is played
playSound(type) == IF type = "session" THEN "session-end.mp3" ELSE "break-end.mp3"

\* The store before the extension is installed holds no key; no one reads it then.
EmptyStore ==
  [timeLeft |-> 0, isRunning |-> FALSE, isSession |-> FALSE,
   sessionDuration |-> 0, breakDuration |-> 0, isDarkMode |-> FALSE]

\* A change notification for the duration keys written by one storage.set.
Change(keys, s, b) == [keys |-> keys, sessionDuration |-> s, breakDuration |-> b]


(***************************************************************************)
(* The Timer Engine (background.ts).  Each handler is an operator from the *)
(* engine's state e (the module-level variables, the live intervals, the   *)
(* store it writes, and what the handler gives out: the sounds it plays,   *)
(* in order the timeLeft values it writes to the store, and the responses  *)
(* it sends) to the state it leaves.                                       *)
(***************************************************************************)
Engine ==
  [timer |-> timer, timeLeft |-> timeLeft, isRunning |-> isRunning,
   isSession |-> isSession, sessionDuration |-> sessionDuration,
   breakDuration |-> breakDuration, intervals |-> intervals, store |-> store,
   played |-> <<>>, wrote |-> <<>>, responses |-> <<>>]

\* let timer = null; let timeLeft = 25 * 60; ... (module evaluation)
ModuleState ==
  [timer |-> Null,
   timeLeft |-> DefaultSessionMinutes * SecondsPerMinute,
   isRunning |-> FALSE,
   isSession |-> TRUE,
   sessionDuration |-> DefaultSessionMinutes * SecondsPerMinute,
   breakDuration |-> DefaultBreakMinutes * SecondsPerMinute]

\* Faulty variant of onInstalled: the timer keys are written as literals too.
onInstalledWritesLiterals(e) ==
  [e EXCEPT !.store = [timeLeft |-> DefaultSessionMinutes * SecondsPerMinute,
                       isRunning |-> FALSE,
                       isSession |-> TRUE,
                       sessionDuration |-> DefaultSessionMinutes,
                       breakDuration |-> DefaultBreakMinutes,
                       isDarkMode |-> FALSE],
            !.wrote = Append(@, DefaultSessionMinutes * SecondsPerMinute)]

\* chrome.runtime.onInstalled listener
onInstalled(e) ==
  [e EXCEPT !.store = [timeLeft |-> e.timeLeft, isRunning |-> e.isRunning,
                       isSession |-> e.isSession,
                       sessionDuration |-> DefaultSessionMinutes,
                       breakDuration |-> DefaultBreakMinutes,
                       isDarkMode |-> FALSE],
            !.wrote = Append(@, e.timeLeft)]

\* Faulty variant of clearTimer: the handle is dropped, the interval is not cleared.
clearTimerLeaks(e) == [e EXCEPT !.timer = Null]

\* if (timer) { clearInterval(timer); timer = null; }
clearTimer(e) ==
  IF e.timer # Null
    THEN [e EXCEPT !.intervals = ClearInterval(@, e.timer), !.timer = Null]
    ELSE e

\* Faulty variants of expired: the comparison is off by one, either way.
expiredBelowZero(t) == t < 0
expiredAtOne(t) == t <= 1

\* if (timeLeft <= 0)
expired(t) == t <= 0

\* Faulty variant of phaseLength: the length of the phase that ended.
phaseLengthOfEndedPhase(session, sessionSeconds, breakSeconds) ==
  IF session THEN breakSeconds ELSE sessionSeconds

\* timeLeft = isSession ? sessionDuration : breakDuration
phaseLength(session, sessionSeconds, breakSeconds) ==
  IF session THEN sessionSeconds ELSE breakSeconds

\* Faulty variant of engineSound: the sound is chosen as the View chooses it,
\* but from the phase entered.
engineSoundSwapped(session) == playSound(IF session THEN "break" ELSE "session")

\* playSound(isSession ? 'session' : 'break'), isSession being the phase entered
engineSound(session) == playSound(IF session THEN "session" ELSE "break")

\* Faulty variant of transition: the interval is left running.
transitionKeepsTimer(e) ==
  LET session == ~e.isSession
      t == phaseLength(session, e.sessionDuration, e.breakDuration)
  IN [e EXCEPT !.isRunning = FALSE,
               !.isSession = session,
               !.timeLeft = t,
               !.store = [@ EXCEPT !.timeLeft = t, !.isRunning = FALSE,
                                   !.isSession = session],
               !.wrote = Append(@, t),
               !.played = Append(@, engineSound(session))]

\* the body of the transition, lines 23-31
transition(e) ==
  LET c == clearTimer(e)
      session == ~e.isSession
      t == phaseLength(session, e.sessionDuration, e.breakDuration)
  IN [c EXCEPT !.isRunning = FALSE,
               !.isSession = session,
               !.timeLeft = t,
               !.store = [@ EXCEPT !.timeLeft = t, !.isRunning = FALSE,
                                   !.isSession = session],
               !.wrote = Append(@, t),
               !.played = Append(@, engineSound(session))]

\* the interval callback of startTimer
tick(e) ==
  LET t == e.timeLeft - 1
      d == [e EXCEPT !.timeLeft = t, !.store.timeLeft = t, !.wrote = Append(@, t)]
  IN IF expired(t) THEN transition(d) ELSE d

\* Faulty variant of startTimer: no guard against a timer already registered.
startTimerUnguarded(e) ==
  LET id == NewInterval(e.intervals)
  IN [e EXCEPT !.isRunning = TRUE,
               !.store.isRunning = TRUE,
               !.timer = id,
               !.intervals = @ \cup {id}]

startTimer(e) ==
  IF e.timer # Null THEN e
  ELSE LET id == NewInterval(e.intervals)
       IN [e EXCEPT !.isRunning = TRUE,
                    !.store.isRunning = TRUE,
                    !.timer = id,
                    !.intervals = @ \cup {id}]

\* Faulty variant of pauseTimer: isRunning is not written to the store.
pauseTimerUnwritten(e) ==
  LET c == clearTimer(e)
  IN [c EXCEPT !.isRunning = FALSE]

pauseTimer(e) ==
  LET c == clearTimer(e)
  IN [c EXCEPT !.isRunning = FALSE, !.store.isRunning = FALSE]

\* Faulty variant of resetTimer: the interval is not cleared.
resetTimerKeepsTimer(e) ==
  [e EXCEPT !.isSession = TRUE,
            !.timeLeft = e.sessionDuration,
            !.isRunning = FALSE,
            !.store = [@ EXCEPT !.timeLeft = e.sessionDuration,
                                !.isRunning = FALSE, !.isSession = TRUE],
            !.wrote = Append(@, e.sessionDuration)]

resetTimer(e) ==
  LET c == clearTimer(e)
  IN [c EXCEPT !.isSession = TRUE,
               !.timeLeft = e.sessionDuration,
               !.isRunning = FALSE,
               !.store = [@ EXCEPT !.timeLeft = e.sessionDuration,
                                   !.isRunning = FALSE, !.isSession = TRUE],
               !.wrote = Append(@, e.sessionDuration)]

\* sendResponse({ success: true })
sendResponse(e) == [e EXCEPT !.responses = Append(@, [success |-> TRUE])]

\* Faulty variant of onMessage: a pauseTimer message is not handled.
onMessageDropsPause(e, request) ==
  LET a == IF request.action = "startTimer" THEN startTimer(e) ELSE e
  IN sendResponse(IF request.action = "resetTimer" THEN resetTimer(a) ELSE a)

\* Faulty variant of onMessage: a message that is no startTimer is taken for a
\* pauseTimer.
onMessagePausesByDefault(e, request) ==
  LET a == IF request.action = "startTimer" THEN startTimer(e) ELSE pauseTimer(e)
  IN sendResponse(IF request.action = "resetTimer" THEN resetTimer(a) ELSE a)

\* chrome.runtime.onMessage listener
onMessage(e, request) ==
  LET a == IF request.action = "startTimer" THEN startTimer(e) ELSE e
      b == IF request.action = "pauseTimer" THEN pauseTimer(a) ELSE a
      c == IF request.action = "resetTimer" THEN resetTimer(b) ELSE b
  IN sendResponse(c)

\* Faulty variant of onSessionDurationChanged: the reload ignores isRunning.
onSessionDurationChangedWhileRunning(e, minutes) ==
  LET d == [e EXCEPT !.sessionDuration = minutes * SecondsPerMinute]
  IN IF d.isSession
       THEN [d EXCEPT !.timeLeft = d.sessionDuration,
                      !.store.timeLeft = d.sessionDuration,
                      !.wrote = Append(@, d.sessionDuration)]
       ELSE d

\* if (changes.sessionDuration) { ... }
onSessionDurationChanged(e, minutes) ==
  LET d == [e EXCEPT !.sessionDuration = minutes * SecondsPerMinute]
  IN IF d.isSession /\ ~d.isRunning
       THEN [d EXCEPT !.timeLeft = d.sessionDuration,
                      !.store.timeLeft = d.sessionDuration,
                      !.wrote = Append(@, d.sessionDuration)]
       ELSE d

\* if (changes.breakDuration) { ... }
onBreakDurationChanged(e, minutes) ==
  LET d == [e EXCEPT !.breakDuration = minutes * SecondsPerMinute]
  IN IF ~d.isSession /\ ~d.isRunning
       THEN [d EXCEPT !.timeLeft = d.breakDuration,
                      !.store.timeLeft = d.breakDuration,
                      !.wrote = Append(@, d.breakDuration)]
       ELSE d

\* chrome.storage.onChanged listener
onChanged(e, c) ==
  LET a == IF "sessionDuration" \in c.keys
             THEN onSessionDurationChanged(e, c.sessionDuration) ELSE e
  IN IF "breakDuration" \in c.keys
       THEN onBreakDurationChanged(a, c.breakDuration) ELSE a

\* The engine's state, the store and the sounds played become those of e.
EngineBecomes(e) ==
  /\ timer' = e.timer
  /\ timeLeft' = e.timeLeft
  /\ isRunning' = e.isRunning
  /\ isSession' = e.isSession
  /\ sessionDuration' = e.sessionDuration
  /\ breakDuration' = e.breakDuration
  /\ intervals' = e.intervals
  /\ store' = e.store
  /\ played' = e.played

(***************************************************************************)
(* The View (Pomodoro.tsx).  c is the mounted component: its React state   *)
(* c.s, the handle its effect's cleanup holds, its live intervals and the  *)
(* sounds the step played.  A storage.get of the View is read and applied  *)
(* in the step that issues it.                                             *)
(***************************************************************************)
Component ==
  [s |-> view, interval |-> viewInterval, intervals |-> viewIntervals, played |-> <<>>]

\* the useState initial values
InitialState ==
  [timeLeft |-> DefaultSessionMinutes * SecondsPerMinute,
   isRunning |-> FALSE,
   sessionDuration |-> DefaultSessionMinutes,
   breakDuration |-> DefaultBreakMinutes,
   isSession |-> TRUE,
   isDarkMode |-> FALSE]

\* the dependency list of the effect
deps(s) == <<s.isRunning, s.timeLeft, s.sessionDuration, s.breakDuration, s.isSession>>

\* the function the effect returned: clearInterval of the interval it created
cleanup(c) ==
  IF c.interval # Null
    THEN [c EXCEPT !.intervals = ClearInterval(@, c.interval), !.interval = Null]
    ELSE c

\* setInterval in the effect; the handle is kept for the cleanup
register(c) ==
  LET id == NewInterval(c.intervals)
  IN [c EXCEPT !.interval = id, !.intervals = @ \cup {id}]

\* Faulty variant of viewPhaseLength: the length of the phase that ended.
viewPhaseLengthOfEndedPhase(session, sessionMinutes, breakMinutes) ==
  IF session THEN sessionMinutes * SecondsPerMinute ELSE breakMinutes * SecondsPerMinute

\* setTimeLeft(isSession ? breakDuration * 60 : sessionDuration * 60)
viewPhaseLength(session, sessionMinutes, breakMinutes) ==
  IF session THEN breakMinutes * SecondsPerMinute ELSE sessionMinutes * SecondsPerMinute

\* playSound(isSession ? 'break' : 'session'), isSession being the phase that ended
viewSound(session) == playSound(IF session THEN "break" ELSE "session")

\* the effect's extension branch: read the six keys, start the poll
extensionEffect(c, st) ==
  register([c EXCEPT !.s = [timeLeft |-> st.timeLeft,
                            isRunning |-> st.isRunning,
                            sessionDuration |-> st.sessionDuration,
                            breakDuration |-> st.breakDuration,
                            isSession |-> st.isSession,
                            isDarkMode |-> st.isDarkMode]])

\* the effect's standalone branch
standaloneEffect(c) ==
  IF c.s.isRunning /\ c.s.timeLeft > 0
    THEN register(c)
  ELSE IF c.s.timeLeft = 0
    THEN [c EXCEPT !.s = [@ EXCEPT !.isRunning = FALSE,
                                   !.isSession = ~c.s.isSession,
                                   !.timeLeft = viewPhaseLength(c.s.isSession,
                                                  c.s.sessionDuration, c.s.breakDuration)],
                   !.played = Append(@, viewSound(c.s.isSession))]
  ELSE c

effect(c, ext, st) == IF ext THEN extensionEffect(c, st) ELSE standaloneEffect(c)

\* React after a render: when a dependency differs from the previous render's, the
\* previous effect is cleaned up and the effect runs, and what it sets is rendered
\* in turn.
RECURSIVE commit(_, _, _, _)
commit(prev, c, ext, st) ==
  IF deps(c.s) = deps(prev) THEN c
  ELSE commit(c.s, effect(cleanup(c), ext, st), ext, st)

\* the first render: the effect always runs
mount(ext, st) ==
  LET c == [s |-> InitialState, interval |-> Null, intervals |-> {}, played |-> <<>>]
  IN commit(c.s, effect(c, ext, st), ext, st)

\* the poll's callback
poll(c, st) ==
  [c EXCEPT !.s = [@ EXCEPT !.timeLeft = st.timeLeft, !.isRunning = st.isRunning,
                            !.isSession = st.isSession]]

\* the standalone interval's callback: setTimeLeft((prevTime) => prevTime - 1)
viewTick(c) == [c EXCEPT !.s.timeLeft = @ - 1]

\* handleStartPause, standalone branch
handleStartPause(c) == [c EXCEPT !.s.isRunning = ~@]

\* handleStartPause, extension branch: the message sent
startPauseMessage(s) == [action |-> IF s.isRunning THEN "pauseTimer" ELSE "startTimer"]

\* handleReset, standalone branch
handleReset(c) ==
  [c EXCEPT !.s = [@ EXCEPT !.timeLeft = c.s.sessionDuration * SecondsPerMinute,
                            !.isRunning = FALSE,
                            !.isSession = TRUE]]

\* handleSessionDurationChange: the state it sets
handleSessionDurationChange(c, value) ==
  [c EXCEPT !.s = [@ EXCEPT !.sessionDuration = value,
                            !.timeLeft = IF c.s.isSession /\ ~c.s.isRunning
                                           THEN value * SecondsPerMinute ELSE @]]

\* handleBreakDurationChange: the state it sets
handleBreakDurationChange(c, value) ==
  [c EXCEPT !.s = [@ EXCEPT !.breakDuration = value,
                            !.timeLeft = IF ~c.s.isSession /\ ~c.s.isRunning
                                           THEN value * SecondsPerMinute ELSE @]]

\* calculateProgress: the elapsed share of the phase, in percent, rounded down
calculateProgress(s) ==
  LET totalTime == IF s.isSession THEN s.sessionDuration * SecondsPerMinute
                                  ELSE s.breakDuration * SecondsPerMinute
  IN ((totalTime - s.timeLeft) * Percent) \div totalTime

\* toggleDarkMode: the state it sets
toggleDarkMode(c) == [c EXCEPT !.s.isDarkMode = ~@]

\* Faulty variant of storeDarkMode: the write also stops the timer in the store.
storeDarkModeStopsTimer(st, s) ==
  [st EXCEPT !.isDarkMode = ~s.isDarkMode, !.isRunning = FALSE]

\* toggleDarkMode, extension branch: chrome.storage.local.set({ isDarkMode: !isDarkMode })
storeDarkMode(st, s) == [st EXCEPT !.isDarkMode = ~s.isDarkMode]

\* The change notification chrome.storage raises for a key set to value.
Notify(queue, st, key, c) == IF st[key] # c[key] THEN Append(queue, c) ELSE queue

\* The mounted component becomes c; a second View is not touched.
ViewBecomes(c) ==
  /\ view' = c.s
  /\ viewInterval' = c.interval
  /\ viewIntervals' = c.intervals
  /\ played' = c.played
  /\ other' = other

\* The second View as a component: while open it holds the one interval of its poll.
OtherComponent ==
  [s |-> other.s, interval |-> 1, intervals |-> {1}, played |-> <<>>]

(***************************************************************************)
(* The state machine.                                                      *)
(***************************************************************************)
Init ==
  /\ isExtensionEnvironment \in BOOLEAN
  /\ timer = ModuleState.timer
  /\ timeLeft = ModuleState.timeLeft
  /\ isRunning = ModuleState.isRunning
  /\ isSession = ModuleState.isSession
  /\ sessionDuration = ModuleState.sessionDuration
  /\ breakDuration = ModuleState.breakDuration
  /\ intervals = {}
  /\ installed = FALSE
  /\ store = EmptyStore
  /\ msgs = <<>>
  /\ changes = <<>>
  /\ mounted = FALSE
  /\ view = InitialState
  /\ viewInterval = Null
  /\ viewIntervals = {}
  /\ polled = TRUE
  /\ other = [mounted |-> FALSE, s |-> InitialState]
  /\ played = <<>>

\* The extension is installed: the onInstalled listener runs, and the store
\* notifies the engine of the two duration keys it set.
OnInstalled ==
  /\ isExtensionEnvironment
  /\ ~installed
  /\ installed' = TRUE
  /\ EngineBecomes(onInstalled(Engine))
  /\ changes' = Append(changes, Change({"sessionDuration", "breakDuration"},
                                       DefaultSessionMinutes, DefaultBreakMinutes))
  /\ UNCHANGED <<isExtensionEnvironment, msgs, viewVars>>

\* The engine receives the oldest control message.
OnMessage ==
  /\ isExtensionEnvironment
  /\ msgs # <<>>
  /\ msgs' = Tail(msgs)
  /\ EngineBecomes(onMessage(Engine, Head(msgs)))
  /\ UNCHANGED <<isExtensionEnvironment, installed, changes, viewVars>>

\* The engine receives the oldest storage change notification.
OnChanged ==
  /\ isExtensionEnvironment
  /\ changes # <<>>
  /\ changes' = Tail(changes)
  /\ EngineBecomes(onChanged(Engine, Head(changes)))
  /\ UNCHANGED <<isExtensionEnvironment, installed, msgs, viewVars>>

\* One second passes for an interval of the engine: its callback runs.  The poll
\* of a mounted View has the same period: it runs between two ticks of the engine.
Tick ==
  /\ isExtensionEnvironment
  /\ \E id \in intervals :
       /\ timeLeft <= TickWindow
       /\ mounted => polled
       /\ EngineBecomes(tick(Engine))
  /\ polled' = ~mounted
  /\ UNCHANGED <<isExtensionEnvironment, installed, msgs, changes,
                 mounted, view, viewInterval, viewIntervals, other>>

\* The engine's process is stopped and started again: the module is evaluated
\* anew, its intervals are gone, the store and the events in flight remain.
Restart ==
  /\ isExtensionEnvironment
  /\ installed
  /\ EngineBecomes([timer |-> ModuleState.timer,
                    timeLeft |-> ModuleState.timeLeft,
                    isRunning |-> ModuleState.isRunning,
                    isSession |-> ModuleState.isSession,
                    sessionDuration |-> ModuleState.sessionDuration,
                    breakDuration |-> ModuleState.breakDuration,
                    intervals |-> {}, store |-> store,
                    played |-> <<>>, wrote |-> <<>>, responses |-> <<>>])
  /\ UNCHANGED <<isExtensionEnvironment, installed, msgs, changes, viewVars>>

\* The View is opened.
Mount ==
  /\ ~mounted
  /\ isExtensionEnvironment => installed
  /\ mounted' = TRUE
  /\ ViewBecomes(mount(isExtensionEnvironment, store))
  /\ polled' = TRUE
  /\ UNCHANGED <<isExtensionEnvironment, engineVars, platformVars>>

\* The View is closed: the cleanup runs and the React state is gone.
Unmount ==
  /\ mounted
  /\ mounted' = FALSE
  /\ ViewBecomes([cleanup(Component) EXCEPT !.s = InitialState])
  /\ polled' = TRUE
  /\ UNCHANGED <<isExtensionEnvironment, engineVars, platformVars>>

\* One second passes for the poll of an extension View.
Poll ==
  /\ isExtensionEnvironment
  /\ mounted
  /\ \E id \in viewIntervals :
       ViewBecomes(commit(view, poll(Component, store), TRUE, store))
  /\ polled' = TRUE
  /\ UNCHANGED <<isExtensionEnvironment, engineVars, platformVars, mounted>>

\* One second passes for the interval of a standalone View.
ViewTick ==
  /\ ~isExtensionEnvironment
  /\ mounted
  /\ \E id \in viewIntervals :
       /\ view.timeLeft <= TickWindow
       /\ ViewBecomes(commit(view, viewTick(Component), FALSE, store))
  /\ UNCHANGED <<isExtensionEnvironment, engineVars, platformVars, mounted, polled>>

\* The Start/Pause button is clicked.
StartPause ==
  /\ mounted
  /\ IF isExtensionEnvironment
       THEN /\ Len(msgs) < MaxPending
            /\ msgs' = Append(msgs, startPauseMessage(view))
            /\ ViewBecomes(Component)
       ELSE /\ ViewBecomes(commit(view, handleStartPause(Component), FALSE, store))
            /\ UNCHANGED msgs
  /\ UNCHANGED <<isExtensionEnvironment, engineVars, installed, store, changes,
                 mounted, polled>>

\* The Reset button is clicked.
Reset ==
  /\ mounted
  /\ IF isExtensionEnvironment
       THEN /\ Len(msgs) < MaxPending
            /\ msgs' = Append(msgs, [action |-> "resetTimer"])
            /\ ViewBecomes(Component)
       ELSE /\ ViewBecomes(commit(view, handleReset(Component), FALSE, store))
            /\ UNCHANGED msgs
  /\ UNCHANGED <<isExtensionEnvironment, engineVars, installed, store, changes,
                 mounted, polled>>

\* The session duration input's onChange with the number entered.
SessionDurationEntered(value) ==
  /\ mounted
  /\ IF isExtensionEnvironment
       THEN /\ Len(changes) < MaxPending
            /\ store' = [store EXCEPT !.sessionDuration = value]
            /\ changes' = Notify(changes, store, "sessionDuration",
                                 Change({"sessionDuration"}, value, 0))
            /\ ViewBecomes(commit(view, handleSessionDurationChange(Component, value),
                                  TRUE, store'))
       ELSE /\ ViewBecomes(commit(view, handleSessionDurationChange(Component, value),
                                  FALSE, store))
            /\ UNCHANGED <<store, changes>>
  /\ UNCHANGED <<isExtensionEnvironment, engineVars, installed, msgs, mounted, polled>>

\* A value is entered in the session duration input.
SessionDurationChange == \E value \in Minutes : SessionDurationEntered(value)

\* A number outside the input's range is typed in the session duration input.
SessionDurationInput == \E value \in OutOfRange : SessionDurationEntered(value)

\* A value is entered in the break duration input.
BreakDurationChange ==
  /\ mounted
  /\ \E value \in Minutes :
       IF isExtensionEnvironment
         THEN /\ Len(changes) < MaxPending
              /\ store' = [store EXCEPT !.breakDuration = value]
              /\ changes' = Notify(changes, store, "breakDuration",
                                   Change({"breakDuration"}, 0, value))
              /\ ViewBecomes(commit(view, handleBreakDurationChange(Component, value),
                                    TRUE, store'))
         ELSE /\ ViewBecomes(commit(view, handleBreakDurationChange(Component, value),
                                    FALSE, store))
              /\ UNCHANGED <<store, changes>>
  /\ UNCHANGED <<isExtensionEnvironment, engineVars, installed, msgs, mounted, polled>>

\* The theme button is clicked.  The engine's onChanged listener has no branch
\* for isDarkMode: the notification of this write changes nothing and is left out.
ToggleDarkMode ==
  /\ mounted
  /\ ViewBecomes(toggleDarkMode(Component))
  /\ store' = (IF isExtensionEnvironment THEN storeDarkMode(store, view) ELSE store)
  /\ UNCHANGED <<isExtensionEnvironment, engineVars, installed, msgs, changes,
                 mounted, polled>>

Next ==
  \/ OnInstalled
  \/ OnMessage
  \/ OnChanged
  \/ Tick
  \/ Mount
  \/ Unmount
  \/ Poll
  \/ ViewTick
  \/ StartPause
  \/ Reset
  \/ SessionDurationChange
  \/ BreakDurationChange

Spec == Init /\ [][Next]_vars

\* The same, with restarts of the engine's process.
NextRestart == Next \/ Restart

SpecRestart == Init /\ [][NextRestart]_vars

\* Some page of the extension sends the engine a message: one of the three control
\* actions, or any other.  The engine's listener is registered when the module is
\* evaluated, before the extension's install event.
SendMessage ==
  /\ isExtensionEnvironment
  /\ Len(msgs) < MaxPending
  /\ \E action \in Actions : msgs' = Append(msgs, [action |-> action])
  /\ played' = <<>>
  /\ UNCHANGED <<isExtensionEnvironment, engineVars, installed, store, changes, viewVars>>

\* The same as Spec, with messages from any sender.
NextMessages == Next \/ SendMessage

SpecMessages == Init /\ [][NextMessages]_vars

(***************************************************************************)
(* The engine and a standalone View side by side, driven by the same       *)
(* intents and the same seconds.  An intent is a click or an input for the *)
(* View and the operation of that name for the engine (the Start/Pause     *)
(* button is a start when the View is not running and a pause when it is). *)
(***************************************************************************)
\* The engine becomes e and the View becomes c; the sounds kept are the View's.
Lockstep(e, c) ==
  /\ ~isExtensionEnvironment
  /\ mounted
  /\ timer' = e.timer
  /\ timeLeft' = e.timeLeft
  /\ isRunning' = e.isRunning
  /\ isSession' = e.isSession
  /\ sessionDuration' = e.sessionDuration
  /\ breakDuration' = e.breakDuration
  /\ intervals' = e.intervals
  /\ store' = e.store
  /\ ViewBecomes(c)
  /\ UNCHANGED <<isExtensionEnvironment, installed, msgs, changes, mounted, polled>>

LockStartPause ==
  Lockstep(IF view.isRunning THEN pauseTimer(Engine) ELSE startTimer(Engine),
           commit(view, handleStartPause(Component), FALSE, store))

LockReset ==
  Lockstep(resetTimer(Engine), commit(view, handleReset(Component), FALSE, store))

LockSessionLength ==
  \E value \in Minutes :
    Lockstep(onSessionDurationChanged(Engine, value),
             commit(view, handleSessionDurationChange(Component, value), FALSE, store))

LockBreakLength ==
  \E value \in Minutes :
    Lockstep(onBreakDurationChanged(Engine, value),
             commit(view, handleBreakDurationChange(Component, value), FALSE, store))

\* One second passes: every registered interval fires, the engine's and the View's.
LockTick ==
  /\ intervals # {} \/ viewIntervals # {}
  /\ timeLeft <= TickWindow
  /\ view.timeLeft <= TickWindow
  /\ Lockstep(IF intervals # {} THEN tick(Engine) ELSE Engine,
              IF viewIntervals # {}
                THEN commit(view, viewTick(Component), FALSE, store)
                ELSE Component)

NextLockstep ==
  \/ Mount
  \/ LockStartPause
  \/ LockReset
  \/ LockSessionLength
  \/ LockBreakLength
  \/ LockTick

\* chrome.storage is absent: the View is standalone.
InitLockstep == Init /\ isExtensionEnvironment = FALSE

SpecLockstep == InitLockstep /\ [][NextLockstep]_vars

(***************************************************************************)
(* Two Views open over the idle engine: the settings are changed through   *)
(* the first, the second watches.                                          *)
(***************************************************************************)
\* The second View is opened.
OtherMount ==
  /\ isExtensionEnvironment
  /\ installed
  /\ ~other.mounted
  /\ other' = [mounted |-> TRUE, s |-> mount(TRUE, store).s]
  /\ played' = <<>>
  /\ UNCHANGED <<isExtensionEnvironment, engineVars, platformVars,
                 mounted, view, viewInterval, viewIntervals, polled>>

\* The second View is closed.
OtherUnmount ==
  /\ other.mounted
  /\ other' = [mounted |-> FALSE, s |-> InitialState]
  /\ played' = <<>>
  /\ UNCHANGED <<isExtensionEnvironment, engineVars, platformVars,
                 mounted, view, viewInterval, viewIntervals, polled>>

\* One second passes for the poll of the second View.
OtherPoll ==
  /\ isExtensionEnvironment
  /\ other.mounted
  /\ other' = [other EXCEPT !.s = commit(other.s, poll(OtherComponent, store), TRUE, store).s]
  /\ played' = <<>>
  /\ UNCHANGED <<isExtensionEnvironment, engineVars, platformVars,
                 mounted, view, viewInterval, viewIntervals, polled>>

NextViews ==
  \/ OnInstalled
  \/ OnChanged
  \/ Mount
  \/ Unmount
  \/ Poll
  \/ SessionDurationChange
  \/ BreakDurationChange
  \/ ToggleDarkMode
  \/ OtherMount
  \/ OtherUnmount
  \/ OtherPoll

\* Change notifications are delivered and the polls of both Views fire.
FairnessViews ==
  /\ WF_vars(OnChanged)
  /\ WF_vars(Poll)
  /\ WF_vars(OtherPoll)

\* chrome.storage is present: the Views are extension Views.
InitViews == Init /\ isExtensionEnvironment = TRUE

SpecViews == InitViews /\ [][NextViews]_vars /\ FairnessViews

\* The same as Spec, with numbers outside the range typed in the session
\* duration input.
NextInputs == Next \/ SessionDurationInput

SpecInputs == Init /\ [][NextInputs]_vars

\* The same as Spec, with the theme button.
NextTheme == Next \/ ToggleDarkMode

SpecTheme == Init /\ [][NextTheme]_vars

\* The same as Spec, with the platform's scheduling: a message sent is delivered
\* to the engine's listener, and the poll of an open View, once registered, fires.
Fairness ==
  /\ WF_vars(OnMessage)
  /\ WF_vars(Poll)

SpecFair == Spec /\ Fairness

(***************************************************************************)
(* Steps named by the properties below.                                    *)
(***************************************************************************)
\* the engine's tick that ends a phase, and the standalone View's
EngineLastTick == Tick /\ timeLeft = 1
ViewLastTick == ViewTick /\ view.timeLeft = 1

\* the engine handles a message with the given action
Handles(action) == OnMessage /\ Head(msgs).action = action

\* the engine handles a notification of the one key
Notified(key) == OnChanged /\ Head(changes).keys = {key}

\* a click or an input of the standalone View
Standalone(A) == ~isExtensionEnvironment /\ A

\* every value of a sequence of written timeLeft values is >= 0
NonNegative(values) == \A i \in DOMAIN values : values[i] >= 0

\* a tick taken at remainingSeconds > n only decrements remainingSeconds
TickOnlyDecrementsAbove(n) ==
  /\ (Tick /\ timeLeft > n) =>
        /\ timeLeft' = timeLeft - 1
        /\ UNCHANGED <<isSession, isRunning, sessionDuration, breakDuration>>
  /\ (ViewTick /\ view.timeLeft > n) =>
        view' = [view EXCEPT !.timeLeft = @ - 1]

\* what is played when a phase ends
SoundFor(endedSession) ==
  IF endedSession THEN <<"break-end.mp3">> ELSE <<"session-end.mp3">>

\* a handler of the engine runs
EngineStep == OnMessage \/ OnChanged \/ Tick

\* the store holds the engine's state
StoreMirrorsTimer ==
  /\ store.timeLeft = timeLeft
  /\ store.isRunning = isRunning
  /\ store.isSession = isSession

StoreMirrorsLengths ==
  /\ store.sessionDuration * SecondsPerMinute = sessionDuration
  /\ store.breakDuration * SecondsPerMinute = breakDuration

StoreMirrorsEngine == StoreMirrorsTimer /\ StoreMirrorsLengths

\* an operation of the View
ViewStep ==
  \/ Mount \/ Unmount \/ Poll \/ StartPause \/ Reset
  \/ SessionDurationChange \/ BreakDurationChange \/ ToggleDarkMode

\* the store's keys that hold the timer
TimerKeys(st) == <<st.timeLeft, st.isRunning, st.isSession>>

\* the oldest message in flight has the given action
HeadIs(action) == msgs # <<>> /\ Head(msgs).action = action

\* the open View displays the engine's remainingSeconds, running and phase
ViewShowsEngine ==
  /\ view.timeLeft = timeLeft
  /\ view.isRunning = isRunning
  /\ view.isSession = isSession

\* the one operation a message with the given action asks for
Operation(action, e) ==
  CASE action = "startTimer" -> startTimer(e)
    [] action = "pauseTimer" -> pauseTimer(e)
    [] action = "resetTimer" -> resetTimer(e)
    [] OTHER -> e

\* the defaults of the Timer State, as the store holds them
DefaultStore ==
  [timeLeft |-> DefaultSessionMinutes * SecondsPerMinute,
   isRunning |-> FALSE,
   isSession |-> TRUE,
   sessionDuration |-> DefaultSessionMinutes,
   breakDuration |-> DefaultBreakMinutes,
   isDarkMode |-> FALSE]

\* the engine holds the defaults
EngineAtDefaults ==
  /\ isSession = TRUE
  /\ isRunning = FALSE
  /\ timeLeft = DefaultSessionMinutes * SecondsPerMinute
  /\ sessionDuration = DefaultSessionMinutes * SecondsPerMinute
  /\ breakDuration = DefaultBreakMinutes * SecondsPerMinute

\* the standalone View and the engine are in the same state
Corresponds ==
  /\ view.isSession = isSession
  /\ view.isRunning = isRunning
  /\ view.timeLeft = timeLeft
  /\ view.sessionDuration * SecondsPerMinute = sessionDuration
  /\ view.breakDuration * SecondsPerMinute = breakDuration

\* a session length the View has stored is on its way to the engine
SessionLengthInFlight ==
  \E i \in DOMAIN changes : changes[i].keys = {"sessionDuration"}

\* a length in minutes the duration inputs allow
InRange(minutes) == minutes \in InputMin..InputMax

(***************************************************************************)
(* C1.  A tick taken when remainingSeconds = 1 flips the phase, stops the  *)
(* countdown and loads the configured length of the phase entered, in the  *)
(* engine and in the standalone View, whatever the phase and the lengths.  *)
(***************************************************************************)
LastTickFlipsAndReloads ==
  [][ /\ EngineLastTick =>
           /\ isSession' = ~isSession
           /\ isRunning' = FALSE
           /\ timeLeft' = (IF isSession THEN breakDuration ELSE sessionDuration)
           /\ UNCHANGED <<sessionDuration, breakDuration>>
      /\ ViewLastTick =>
           /\ view'.isSession = ~view.isSession
           /\ view'.isRunning = FALSE
           /\ view'.timeLeft = (IF view.isSession THEN view.breakDuration
                                                  ELSE view.sessionDuration) * SecondsPerMinute
           /\ view'.sessionDuration = view.sessionDuration
           /\ view'.breakDuration = view.breakDuration ]_vars

\* the engine has ended a Break of one minute and loaded a Session of one minute
EngineEndedBreak ==
  /\ isExtensionEnvironment
  /\ played = <<"session-end.mp3">>
  /\ isSession /\ ~isRunning
  /\ sessionDuration = SecondsPerMinute
  /\ timeLeft = SecondsPerMinute

(***************************************************************************)
(* C2.  With positive configured lengths, remainingSeconds is never        *)
(* negative: not the engine's timeLeft, not the store's, not the View's,   *)
(* and no value a handler of the engine that can run now writes to the     *)
(* store.                                                                  *)
(***************************************************************************)
RemainingNeverNegative ==
  /\ timeLeft >= 0
  /\ store.timeLeft >= 0
  /\ view.timeLeft >= 0
  /\ intervals # {} => NonNegative(tick(Engine).wrote)
  /\ msgs # <<>> => NonNegative(onMessage(Engine, Head(msgs)).wrote)
  /\ changes # <<>> => NonNegative(onChanged(Engine, Head(changes)).wrote)

\* the engine is about to write 0 and then the length of the phase it enters
EngineWritesZero ==
  /\ intervals # {}
  /\ timeLeft = 1
  /\ store.timeLeft = 1
  /\ tick(Engine).wrote = <<0, breakDuration>>

(***************************************************************************)
(* C3, as claimed.  For every state with remainingSeconds > 0, a tick      *)
(* decrements remainingSeconds by exactly 1 and leaves the phase, running  *)
(* and the configured lengths unchanged.                                   *)
(***************************************************************************)
TickOnlyDecrementsAboveZero == [][TickOnlyDecrementsAbove(0)]_vars

(***************************************************************************)
(* C3, amended.  For every state with remainingSeconds > 1, a tick         *)
(* decrements remainingSeconds by exactly 1 and leaves the phase, running  *)
(* and the configured lengths unchanged.                                   *)
(***************************************************************************)
TickOnlyDecrementsAboveOne == [][TickOnlyDecrementsAbove(1)]_vars

\* the engine has counted a Session of one minute down to its last second
EngineCountedDown ==
  /\ isExtensionEnvironment
  /\ isRunning /\ isSession
  /\ sessionDuration = SecondsPerMinute
  /\ timeLeft = 1

(***************************************************************************)
(* C4.  reset from any state leaves phase = Session, running = false and   *)
(* remainingSeconds = the configured session length, with no interval left *)
(* registered; the engine writes the same three values to the store.       *)
(***************************************************************************)
ResetLoadsSession ==
  [][ /\ Handles("resetTimer") =>
           /\ isSession' /\ ~isRunning'
           /\ timeLeft' = sessionDuration
           /\ timer' = Null /\ intervals' = {}
           /\ store'.isSession /\ ~store'.isRunning
           /\ store'.timeLeft = sessionDuration
           /\ UNCHANGED <<sessionDuration, breakDuration>>
      /\ Standalone(Reset) =>
           /\ view'.isSession /\ ~view'.isRunning
           /\ view'.timeLeft = view.sessionDuration * SecondsPerMinute
           /\ viewIntervals' = {}
           /\ view'.sessionDuration = view.sessionDuration
           /\ view'.breakDuration = view.breakDuration ]_vars

\* a reset reaches the engine while it counts down a Break
ResetDuringBreak ==
  /\ msgs # <<>>
  /\ Head(msgs).action = "resetTimer"
  /\ isRunning /\ ~isSession
  /\ timeLeft < breakDuration

(***************************************************************************)
(* C5.  Setting the session (break) length while not running in the        *)
(* Session (Break) phase sets remainingSeconds to the new length in        *)
(* seconds; while running, or in the other phase, it leaves                *)
(* remainingSeconds alone.  Either way it changes the configured length of *)
(* that phase and nothing else: not the phase, not running, not the other  *)
(* length.                                                                 *)
(***************************************************************************)
SetLengthReloadsWhenIdle ==
  [][ /\ Notified("sessionDuration") =>
           /\ sessionDuration' = Head(changes).sessionDuration * SecondsPerMinute
           /\ timeLeft' = (IF ~isRunning /\ isSession THEN sessionDuration' ELSE timeLeft)
           /\ UNCHANGED <<isSession, isRunning, breakDuration>>
      /\ Notified("breakDuration") =>
           /\ breakDuration' = Head(changes).breakDuration * SecondsPerMinute
           /\ timeLeft' = (IF ~isRunning /\ ~isSession THEN breakDuration' ELSE timeLeft)
           /\ UNCHANGED <<isSession, isRunning, sessionDuration>>
      /\ Standalone(SessionDurationChange) =>
           /\ view'.sessionDuration \in Minutes
           /\ view'.timeLeft = (IF ~view.isRunning /\ view.isSession
                                  THEN view'.sessionDuration * SecondsPerMinute
                                  ELSE view.timeLeft)
           /\ view'.isSession = view.isSession
           /\ view'.isRunning = view.isRunning
           /\ view'.breakDuration = view.breakDuration
      /\ Standalone(BreakDurationChange) =>
           /\ view'.breakDuration \in Minutes
           /\ view'.timeLeft = (IF ~view.isRunning /\ ~view.isSession
                                  THEN view'.breakDuration * SecondsPerMinute
                                  ELSE view.timeLeft)
           /\ view'.isSession = view.isSession
           /\ view'.isRunning = view.isRunning
           /\ view'.sessionDuration = view.sessionDuration ]_vars

\* the engine was told a break length while idle in a Session it has not left:
\* the break length is the new one and remainingSeconds is the session's
BreakLengthSetDuringSession ==
  /\ isExtensionEnvironment
  /\ isSession /\ ~isRunning
  /\ breakDuration = SecondsPerMinute
  /\ sessionDuration = DefaultSessionMinutes * SecondsPerMinute
  /\ timeLeft = sessionDuration

(***************************************************************************)
(* C6.  start is idempotent: from any reachable state, starting twice      *)
(* leaves the engine, its intervals and the store as starting once does,   *)
(* with one interval registered, and starting a running engine changes     *)
(* nothing.                                                                *)
(***************************************************************************)
StartIsIdempotent ==
  LET once == startTimer(Engine)
      twice == startTimer(once)
  IN /\ twice = once
     /\ Cardinality(once.intervals) = 1
     /\ once.isRunning /\ once.store.isRunning
     /\ isRunning => once = Engine

\* a second startTimer reaches the engine that the first has started
StartReachesRunningEngine ==
  /\ msgs # <<>>
  /\ Head(msgs).action = "startTimer"
  /\ isRunning
  /\ intervals # {}

(***************************************************************************)
(* C7.  The engine never advances by itself: a tick fires only while       *)
(* running, a phase transition leaves nothing registered, and while        *)
(* running = false remainingSeconds changes only by a reset or a length    *)
(* change and running becomes true only by a start.                        *)
(***************************************************************************)
NeverAutoAdvances ==
  [][ /\ Tick => isRunning
      /\ ViewTick => view.isRunning
      /\ played' # <<>> =>
           IF isExtensionEnvironment
             THEN ~isRunning' /\ intervals' = {}
             ELSE ~view'.isRunning /\ viewIntervals' = {}
      /\ (isExtensionEnvironment /\ ~isRunning) =>
           /\ isRunning' => Handles("startTimer")
           /\ timeLeft' # timeLeft => Handles("resetTimer") \/ OnChanged
      /\ (~isExtensionEnvironment /\ mounted /\ mounted' /\ ~view.isRunning) =>
           /\ view'.isRunning => StartPause
           /\ view'.timeLeft # view.timeLeft =>
                Reset \/ SessionDurationChange \/ BreakDurationChange ]_vars

\* the standalone View has ended a phase and waits
ViewWaitsAfterTransition ==
  /\ ~isExtensionEnvironment
  /\ played # <<>>
  /\ ~view.isRunning
  /\ viewIntervals = {}

(***************************************************************************)
(* C8.  A step plays a sound exactly when it is the tick that ends a       *)
(* phase, and then it plays one: break-end.mp3 when a Session ended,       *)
(* session-end.mp3 when a Break ended, the same in the engine and in the   *)
(* standalone View.                                                        *)
(***************************************************************************)
OneSoundPerTransition ==
  [][ /\ played' # <<>> => EngineLastTick \/ ViewLastTick
      /\ EngineLastTick => played' = SoundFor(isSession)
      /\ ViewLastTick => played' = SoundFor(view.isSession) ]_vars

\* the engine has ended a Session: break-end.mp3 was played once
EngineEndedSession ==
  /\ isExtensionEnvironment
  /\ played = <<"break-end.mp3">>
  /\ ~isSession /\ ~isRunning
  /\ timeLeft = breakDuration

(***************************************************************************)
(* C9.  At most one interval of the engine is registered, and one is       *)
(* registered exactly when running = true; the View has at most one        *)
(* interval while mounted and none once unmounted.                         *)
(***************************************************************************)
OneIntervalIffRunning ==
  /\ Cardinality(intervals) <= 1
  /\ intervals # {} <=> isRunning
  /\ timer # Null <=> isRunning
  /\ timer # Null => intervals = {timer}
  /\ Cardinality(viewIntervals) <= 1
  /\ ~mounted => viewIntervals = {}

\* the engine counts down and the mounted View polls
EngineAndPollRegistered ==
  /\ isRunning
  /\ Cardinality(intervals) = 1
  /\ mounted
  /\ Cardinality(viewIntervals) = 1
  /\ timeLeft < sessionDuration

(***************************************************************************)
(* C10.  After a restart of the engine's process, the engine's Timer State *)
(* equals the state persisted in the store before the restart.             *)
(***************************************************************************)
RestartRestoresStore ==
  [][ Restart =>
        /\ timeLeft' = store.timeLeft
        /\ isRunning' = store.isRunning
        /\ isSession' = store.isSession
        /\ sessionDuration' = store.sessionDuration * SecondsPerMinute
        /\ breakDuration' = store.breakDuration * SecondsPerMinute
        /\ isRunning' <=> intervals' # {} ]_vars

IntentsExecutedViewsConverge ==
  /\ HeadIs("startTimer") ~> (isRunning /\ timer # Null)
  /\ HeadIs("pauseTimer") ~> (~isRunning /\ timer = Null)
  /\ HeadIs("resetTimer") ~> (isSession /\ ~isRunning /\ timeLeft = sessionDuration)
  /\ <>[][UNCHANGED <<timeLeft, isRunning, isSession>>]_vars
       => <>[](isExtensionEnvironment /\ mounted => ViewShowsEngine)

\* a pause is in flight to the running engine while the open View still shows
\* the second before the engine's last tick
PauseInFlightViewBehind ==
  /\ HeadIs("pauseTimer")
  /\ isRunning
  /\ mounted
  /\ view.timeLeft = timeLeft + 1

(***************************************************************************)
(* C14.  Every message the engine receives, whatever its action, is        *)
(* answered once, with {success: true}.  A startTimer, pauseTimer or       *)
(* resetTimer message runs that one operation and no other; a message with *)
(* any other action leaves the engine and the store unchanged.             *)
(***************************************************************************)
MessageRunsOneOperation ==
  [][OnMessage =>
       /\ onMessage(Engine, Head(msgs)).responses = <<[success |-> TRUE]>>
       /\ EngineBecomes(Operation(Head(msgs).action, Engine))
       /\ Head(msgs).action \notin ControlActions => UNCHANGED <<engineVars, store>>]_vars

\* a message that is no control message reaches the engine, which counts down
UnknownMessageReachesRunningEngine ==
  /\ HeadIs("other")
  /\ isRunning
  /\ timeLeft < sessionDuration
  /\ store.isRunning

(***************************************************************************)
(* C15, as claimed.  On first load the engine holds the defaults, and the  *)
(* install handler writes the defaults to the store (timeLeft 1500,        *)
(* isRunning false, isSession true, sessionDuration 25, breakDuration 5,   *)
(* isDarkMode false), whatever messages were handled before it ran.        *)
(***************************************************************************)
InstallWritesDefaults ==
  /\ EngineAtDefaults
  /\ [][OnInstalled => store' = DefaultStore]_vars

(***************************************************************************)
(* C15, amended.  On first load the engine holds the defaults.  The        *)
(* install handler writes sessionDuration 25, breakDuration 5 and          *)
(* isDarkMode false, and the engine's timeLeft, isRunning and isSession as *)
(* they are when it runs: the defaults when the engine still holds them,   *)
(* not when a message handled before has changed them.  It leaves the      *)
(* engine as it is.                                                        *)
(***************************************************************************)
InstallWritesEngineState ==
  /\ EngineAtDefaults
  /\ [][OnInstalled =>
          /\ store' = [DefaultStore EXCEPT !.timeLeft = timeLeft,
                                           !.isRunning = isRunning,
                                           !.isSession = isSession]
          /\ EngineAtDefaults => store' = DefaultStore
          /\ UNCHANGED engineVars]_vars

\* a startTimer was handled before the install handler has run
StartedBeforeInstall ==
  /\ isExtensionEnvironment
  /\ ~installed
  /\ isRunning
  /\ intervals # {}

(***************************************************************************)
(* C16.  The standalone View and the engine implement the same state       *)
(* machine: driven by the same start, pause, reset, set-session-length and *)
(* set-break-length intents and the same seconds from the same initial     *)
(* state, they are in the same phase, running and remainingSeconds (and    *)
(* hold the same lengths) after every step, and each second makes them     *)
(* play the same sounds.                                                   *)
(***************************************************************************)
ViewAndEngineInLockstep ==
  /\ []Corresponds
  /\ [][played' = (IF LockTick /\ intervals # {} THEN tick(Engine).played ELSE <<>>)]_vars

\* both have ended a Session of one minute in the same second and wait in the Break
BothEndedSession ==
  /\ ~isExtensionEnvironment
  /\ mounted
  /\ played = <<"break-end.mp3">>
  /\ ~isSession /\ ~view.isSession
  /\ ~isRunning /\ ~view.isRunning
  /\ timeLeft = breakDuration
  /\ view.timeLeft = timeLeft
  /\ store.isSession = FALSE

(***************************************************************************)
(* C17.  When the View has stored a new session length while the engine is *)
(* idle in the Session phase and a startTimer follows, the countdown that  *)
(* begins starts from the stored length, whichever of the change           *)
(* notification and the message the engine receives first: a start handled *)
(* by the idle engine in the Session phase begins at the length the store  *)
(* holds, also while the notification is still in flight.                  *)
(***************************************************************************)
StartCountsFromStoredLength ==
  [][(Handles("startTimer") /\ ~isRunning /\ isSession /\ SessionLengthInFlight) =>
       timeLeft' = store.sessionDuration * SecondsPerMinute]_vars

(***************************************************************************)
(* C18.  With two Views open in extension mode, a session length, a break  *)
(* length or a theme stored through one View eventually shows in the other *)
(* open View's sessionDuration, breakDuration and isDarkMode, also when    *)
(* the engine is idle and the change alters none of remainingSeconds,      *)
(* running and phase.                                                      *)
(***************************************************************************)
SettingsReachOtherView ==
  /\ (other.mounted /\ other.s.sessionDuration # store.sessionDuration)
       ~> (~other.mounted \/ other.s.sessionDuration = store.sessionDuration)
  /\ (other.mounted /\ other.s.breakDuration # store.breakDuration)
       ~> (~other.mounted \/ other.s.breakDuration = store.breakDuration)
  /\ (other.mounted /\ other.s.isDarkMode # store.isDarkMode)
       ~> (~other.mounted \/ other.s.isDarkMode = store.isDarkMode)

(***************************************************************************)
(* C19.  In every reachable state remainingSeconds is at most the          *)
(* configured length of the current phase, in the engine and in the View,  *)
(* so the progress calculateProgress shows is between 0 and 100 percent,   *)
(* also after length changes made while running.                           *)
(***************************************************************************)
RemainingWithinPhaseLength ==
  /\ timeLeft <= phaseLength(isSession, sessionDuration, breakDuration)
  /\ mounted =>
       /\ view.timeLeft <= (IF view.isSession THEN view.sessionDuration
                                              ELSE view.breakDuration) * SecondsPerMinute
       /\ calculateProgress(view) >= 0
       /\ calculateProgress(view) <= Percent

(***************************************************************************)
(* C20.  Whatever is entered in a duration input, every length the View    *)
(* holds, every length in the store and every length the engine has        *)
(* adopted is a whole number of minutes within 1..60, so the engine's      *)
(* configured lengths are positive.                                        *)
(***************************************************************************)
LengthsWithinRange ==
  /\ InRange(view.sessionDuration) /\ InRange(view.breakDuration)
  /\ installed => InRange(store.sessionDuration) /\ InRange(store.breakDuration)
  /\ \E m \in InputMin..InputMax : sessionDuration = m * SecondsPerMinute
  /\ \E m \in InputMin..InputMax : breakDuration = m * SecondsPerMinute
  /\ sessionDuration > 0 /\ breakDuration > 0

=============================================================================
